---- MODULE Spec2Model ----
(***************************************************************************)
(* daily-bulletin, simple_pdf_generator.py: main() fetches an article,     *)
(* extract_article_content() harvests images, isolates the article body    *)
(* (readability, then the container fallback), resolves image placements,  *)
(* and create_pdf() downloads the images and lays the content out.         *)
(*                                                                         *)
(* A parsed document (a BeautifulSoup tree) is a sequence of nodes in      *)
(* document order; node.depth is the nesting depth, so the subtree of node *)
(* i is the maximal run of nodes after i that are deeper than i.  Text     *)
(* (NavigableString) is a node of tag "#text" carrying its length and      *)
(* whether it is whitespace only; a text that is not whitespace only is    *)
(* taken to have no leading or trailing whitespace.                        *)
(***************************************************************************)
EXTENDS Integers, Sequences, FiniteSets, TLC

VARIABLES
    pc,              \* position in main / extract_article_content / create_pdf
    url,             \* the url main works on (a sequence of string pieces)
    raw,             \* original_soup
    page_title,      \* what doc.title() answers for the fetched page
    original_images, \* the harvested sources, in document order
    soup,            \* the content tree being built
    source,          \* which extraction path produced soup (the printed message)
    images,          \* the ImageRef list
    uuid_ctr,        \* uuid.uuid4(): the number of ids minted so far
    article_data,    \* what extract_article_content returned
    image_files,     \* create_pdf: img id -> saved file (its pixel size)
    dl_index,        \* create_pdf: how many of article_data.images were handled
    elements,        \* create_pdf: the flowables appended so far
    output,          \* the file doc.build wrote (a sequence of flowables), if any
    success,         \* what create_pdf returned: "none" (not called), "true", "false"
    response,        \* what requests.get answered for the page
    error            \* the "Error ..." message printed, by its kind ("" if none)

\* save_full_page.py, save_page_as_pdf
VARIABLES
    sp_pc,           \* position in save_page_as_pdf ("idle": not called)
    headless,        \* the headless argument
    is_medium,       \* is_medium_url(url)
    driver,          \* the driver variable: "None", "live" or "closed"
    quit_calls,      \* how often driver.quit() was called
    scrolls_left,    \* iterations of the scroll loop still to run
    pdf_file,        \* the file at output_path: "absent", "old" (of an earlier
                     \* run), "empty", "partial", "pdf"
    pending,         \* the value of the return statement the finally block holds up
    returned         \* how the call ended: "" (running), "None", "output_path", "raised"

article == <<pc, url, raw, page_title, original_images, soup, source, images,
             uuid_ctr, article_data, image_files, dl_index, elements, output, success,
             response, error>>

browser == <<sp_pc, headless, is_medium, driver, quit_calls, scrolls_left, pdf_file,
             pending, returned>>

vars == <<article, browser>>

\* save_page_as_pdf is not called.
NoBrowser ==
    /\ sp_pc = "idle"
    /\ headless = TRUE
    /\ is_medium = FALSE
    /\ driver = "None"
    /\ quit_calls = 0
    /\ scrolls_left = 0
    /\ pdf_file = "absent"
    /\ pending = ""
    /\ returned = ""

----------------------------------------------------------------------------
(* Attribute values                                                        *)

\* An attribute such as width: absent, the empty string, a non-integer text
\* such as "auto", or the decimal text of an integer.
NoAttr == [k |-> "absent", n |-> 0]
EmptyAttr == [k |-> "empty", n |-> 0]
TextAttr == [k |-> "text", n |-> 0]
IntAttr(v) == [k |-> "int", n |-> v]

\* Python truthiness of tag.get(name): None and "" are falsy.
Truthy(a) == a.k \in {"text", "int"}

\* int(value) succeeds (no ValueError / TypeError).
ParsesInt(a) == a.k = "int"

----------------------------------------------------------------------------
(* Nodes and trees                                                         *)

Node(tag, depth) ==
    [tag |-> tag, depth |-> depth, cls |-> {}, role |-> "",
     hasSrc |-> FALSE, src |-> <<>>, width |-> NoAttr, height |-> NoAttr,
     alt |-> "", imgid |-> 0, len |-> 0, blank |-> FALSE]

Text(n, depth) == [Node("#text", depth) EXCEPT !.len = n]
Blank(n, depth) == [Node("#text", depth) EXCEPT !.len = n, !.blank = TRUE]
Img(src, depth) == [Node("img", depth) EXCEPT !.hasSrc = TRUE, !.src = src]

Indices(doc) == [k \in 1..Len(doc) |-> k]

MinOf(S) == CHOOSE x \in S : \A y \in S : x <= y
MaxOf(S) == CHOOSE x \in S : \A y \in S : x >= y

\* The last node of the subtree rooted at node i.
SubtreeEnd(doc, i) ==
    LET later == {j \in (i + 1)..Len(doc) : doc[j].depth <= doc[i].depth}
    IN  IF later = {} THEN Len(doc) ELSE MinOf(later) - 1

\* The subtree rooted at node i as a document of its own (str(tag) parsed again).
Subtree(doc, i) ==
    [n \in 1..(SubtreeEnd(doc, i) - i + 1) |->
        [doc[i + n - 1] EXCEPT !.depth = @ - doc[i].depth]]

\* tree.find_all(names): the elements whose tag name is in names, in document order.
FindAll(doc, names) == SelectSeq(Indices(doc), LAMBDA k : doc[k].tag \in names)

\* for tag in tree.find_all(names): tag.decompose()
Decompose(doc, names) ==
    LET doomed(j) == \E i \in 1..j : doc[i].tag \in names /\ j <= SubtreeEnd(doc, i)
        keep == SelectSeq(Indices(doc), LAMBDA k : ~doomed(k))
    IN  [n \in 1..Len(keep) |-> doc[keep[n]]]

\* for tag in doc[c].find_all(names): tag.decompose()   (descendants of c only)
DecomposeWithin(doc, c, names) ==
    LET doomed(j) == \E i \in (c + 1)..j :
                        /\ i <= SubtreeEnd(doc, c)
                        /\ doc[i].tag \in names
                        /\ j <= SubtreeEnd(doc, i)
        keep == SelectSeq(Indices(doc), LAMBDA k : ~doomed(k))
    IN  [n \in 1..Len(keep) |-> doc[keep[n]]]

\* doc[i].insert_after(node): node becomes the next sibling of node i.
InsertAfter(doc, i, node) ==
    LET pos == SubtreeEnd(doc, i)
    IN  SubSeq(doc, 1, pos) \o <<[node EXCEPT !.depth = doc[i].depth]>>
            \o SubSeq(doc, pos + 1, Len(doc))

\* The text nodes get_text() concatenates: those of node i's subtree (i = 0: the
\* whole tree), in document order.
TextNodes(doc, i) ==
    SelectSeq(Indices(doc),
              LAMBDA k : /\ doc[k].tag = "#text"
                         /\ (i = 0 \/ (i < k /\ k <= SubtreeEnd(doc, i))))

RECURSIVE SumLen(_, _, _, _)
SumLen(doc, idx, from, to) ==
    IF from > to THEN 0
    ELSE doc[idx[from]].len + SumLen(doc, idx, from + 1, to)

\* len(node.get_text().strip())
StrippedLen(doc, i) ==
    LET idx == TextNodes(doc, i)
        solid == {n \in 1..Len(idx) : ~doc[idx[n]].blank /\ doc[idx[n]].len > 0}
    IN  IF solid = {} THEN 0 ELSE SumLen(doc, idx, MinOf(solid), MaxOf(solid))

\* A node kind can have children (text is a leaf, img is a void element).
CanNest(n) == n.tag \notin {"#text", "img"}

\* The depth sequences of the trees of n nodes: the first node is a root and
\* a node is at most one level below the node before it.
DepthPatterns(n) ==
    {d \in [1..n -> 0..(n - 1)] :
        \A k \in 1..n : d[k] <= (IF k = 1 THEN 0 ELSE d[k - 1] + 1)}

\* No node of doc is the child of a text or of an img.
WellNested(doc) ==
    \A k \in 2..Len(doc) :
        doc[k].depth = doc[k - 1].depth + 1 => CanNest(doc[k - 1])

\* The tree with the node kinds ks and the depths d.
TreeOf(ks, d) == [k \in DOMAIN ks |-> [ks[k] EXCEPT !.depth = d[k]]]

\* doc is a tree of at most n nodes, each node one of kinds (given at depth 0).
IsTree(doc, kinds, n) ==
    \E m \in 0..n : \E d \in DepthPatterns(m) : \E ks \in [1..m -> kinds] :
        doc = TreeOf(ks, d) /\ WellNested(doc)

----------------------------------------------------------------------------
(* extract_article_content: the pure parts                                 *)

\* "if width < 50 or height < 50"
MinImageSide == 50
\* "if len(soup.get_text().strip()) < 500"
ShortThreshold == 500
\* "if i > 0 and i % 3 == 0"
PlacementStride == 3

\* img.get('src') is truthy: the attribute is there and is not "".
HasSrc(n) == n.hasSrc /\ n.src # <<>>

\* img_url.startswith('data:')
IsDataUrl(src) == Len(src) > 0 /\ src[1] = "data:"

\* TooSmall dropping an image as soon as one known dimension is small.
TooSmallEither(n) ==
    \/ ParsesInt(n.width) /\ n.width.n < MinImageSide
    \/ ParsesInt(n.height) /\ n.height.n < MinImageSide

\* The size filter of the harvest scan: both attributes truthy, both parse as
\* integers, one below the minimum.  A ValueError leaves the image in.
TooSmall(n) ==
    /\ Truthy(n.width) /\ Truthy(n.height)
    /\ ParsesInt(n.width) /\ ParsesInt(n.height)
    /\ (n.width.n < MinImageSide \/ n.height.n < MinImageSide)

\* One img of the raw page is appended to original_images.
Harvestable(n) == HasSrc(n) /\ ~TooSmall(n) /\ ~IsDataUrl(n.src)

\* The harvest scan over original_soup.find_all('img').
HarvestImages(doc) ==
    LET kept == SelectSeq(FindAll(doc, {"img"}), LAMBDA k : Harvestable(doc[k]))
    IN  [n \in 1..Len(kept) |-> doc[kept[n]].src]

Unwanted == {"script", "style", "nav", "footer", "header", "aside"}

\* The names handed to article_container.find_all: find_all matches tag names,
\* so the four dotted entries name tags, not classes.
UnwantedInContainer ==
    Unwanted \cup {".ad", ".advertisement", ".social-share", ".related-posts"}

ContainerClasses == {"article", "post", "content", "post-content"}

\* One element matches 'article, .article, .post, .content, .post-content, [role="main"]'.
IsContainer(n) ==
    /\ n.tag # "#text"
    /\ \/ n.tag = "article"
       \/ n.cls \cap ContainerClasses # {}
       \/ n.role = "main"

\* original_soup.select(...): the matches in document order.
SelectContainers(doc) == SelectSeq(Indices(doc), LAMBDA k : IsContainer(doc[k]))

\* TooShort with the comparison turned round.
TooShortFlipped(doc) == StrippedLen(doc, 0) > ShortThreshold

\* The quality gate: the readability text is "too short".
TooShort(doc) == StrippedLen(doc, 0) < ShortThreshold

\* Fallback taking a container only if its own text reaches the threshold.
FallbackLongOnly(orig, content) ==
    LET found == SelectSeq(Indices(orig),
                           LAMBDA k : /\ IsContainer(orig[k])
                                      /\ StrippedLen(orig, k) >= ShortThreshold)
    IN  IF StrippedLen(content, 0) < ShortThreshold /\ found # <<>>
        THEN LET cleaned == DecomposeWithin(orig, found[1], UnwantedInContainer)
             IN  [raw |-> cleaned, soup |-> Subtree(cleaned, found[1]),
                  source |-> "CONTAINER_FALLBACK"]
        ELSE [raw |-> orig, soup |-> content, source |-> "READABILITY"]

\* The fallback block: the new original_soup, the new soup and the message.
Fallback(orig, content) ==
    IF ~TooShort(content)
    THEN [raw |-> orig, soup |-> content, source |-> "READABILITY"]
    ELSE LET found == SelectContainers(orig)
         IN  IF found # <<>>
             THEN LET c == found[1]
                      cleaned == DecomposeWithin(orig, c, UnwantedInContainer)
                  IN  [raw |-> cleaned, soup |-> Subtree(cleaned, c),
                       source |-> "CONTAINER_FALLBACK"]
             ELSE [raw |-> orig, soup |-> content, source |-> "READABILITY"]

ImageRef(id, src, alt) == [id |-> id, src |-> src, alt |-> alt]

\* TagFrom minting one id and reusing it for every image.
RECURSIVE TagFromReuse(_, _, _, _)
TagFromReuse(doc, imgs, n, ctr) ==
    IF n > Len(imgs) THEN [soup |-> doc, images |-> <<>>, ctr |-> ctr + 1]
    ELSE LET k == imgs[n]
         IN  IF HasSrc(doc[k])
             THEN LET rest == TagFromReuse([doc EXCEPT ![k].imgid = ctr + 1],
                                           imgs, n + 1, ctr)
                  IN  [rest EXCEPT !.images =
                          <<ImageRef(ctr + 1, doc[k].src, doc[k].alt)>> \o @]
             ELSE TagFromReuse(doc, imgs, n + 1, ctr)

\* "for img in soup.find_all('img'): if img.get('src'): ..." from the n-th img on;
\* ctr is the number of uuids minted before.
RECURSIVE TagFrom(_, _, _, _)
TagFrom(doc, imgs, n, ctr) ==
    IF n > Len(imgs) THEN [soup |-> doc, images |-> <<>>, ctr |-> ctr]
    ELSE LET k == imgs[n]
         IN  IF HasSrc(doc[k])
             THEN LET rest == TagFrom([doc EXCEPT ![k].imgid = ctr + 1],
                                      imgs, n + 1, ctr + 1)
                  IN  [rest EXCEPT !.images =
                          <<ImageRef(ctr + 1, doc[k].src, doc[k].alt)>> \o @]
             ELSE TagFrom(doc, imgs, n + 1, ctr)

TagImages(doc, ctr) == TagFrom(doc, FindAll(doc, {"img"}), 1, ctr)

\* ShouldSynthesize without the test of images.
ShouldSynthesizeAlways(refs, harvested) == harvested # <<>>

\* "if not images and original_images"
ShouldSynthesize(refs, harvested) == refs = <<>> /\ harvested # <<>>

\* PlacementDue firing on the third paragraph of each group of three.
PlacementDueEarly(i, img_index, n) ==
    i % PlacementStride = PlacementStride - 1 /\ img_index < n

\* "if i > 0 and i % 3 == 0 and img_index < len(original_images)", i counted from 0.
PlacementDue(i, img_index, n) ==
    i > 0 /\ i % PlacementStride = 0 /\ img_index < n

\* The loop "for i, p in enumerate(paragraphs)" from index i on; paragraphs is the
\* list taken before the loop, and the i-th of them is still the i-th p of the
\* tree because only img elements are inserted.
RECURSIVE PlaceFrom(_, _, _, _, _, _)
PlaceFrom(doc, i, img_index, harvested, ctr, n) ==
    IF i >= n THEN [soup |-> doc, images |-> <<>>, ctr |-> ctr]
    ELSE IF PlacementDue(i, img_index, Len(harvested))
         THEN LET p == FindAll(doc, {"p"})[i + 1]
                  src == harvested[img_index + 1]
                  img_tag == [Img(src, 0) EXCEPT !.imgid = ctr + 1]
                  rest == PlaceFrom(InsertAfter(doc, p, img_tag), i + 1,
                                    img_index + 1, harvested, ctr + 1, n)
              IN  [rest EXCEPT !.images = <<ImageRef(ctr + 1, src, "")>> \o @]
         ELSE PlaceFrom(doc, i + 1, img_index, harvested, ctr, n)

\* The whole "if not images and original_images" block.
Synthesize(doc, refs, harvested, ctr) ==
    IF ShouldSynthesize(refs, harvested)
    THEN LET r == PlaceFrom(doc, 0, 0, harvested, ctr, Len(FindAll(doc, {"p"})))
         IN  [r EXCEPT !.images = refs \o @]
    ELSE [soup |-> doc, images |-> refs, ctr |-> ctr]

----------------------------------------------------------------------------
(* create_pdf: the pure parts                                              *)

\* reportlab.lib.units.inch, in points
inch == 72
\* "max_width = 6 * inch"
MaxWidthInches == 6
max_width == MaxWidthInches * inch
\* reportlab.lib.pagesizes.letter[0], in points
LetterWidth == 612
\* rightMargin=72, leftMargin=72
SideMargin == 72
\* The page's width between the left and the right margin.
UsableWidth == LetterWidth - 2 * SideMargin

\* A URL is a sequence of pieces: a scheme piece ("https:", or "https://" with
\* the slashes of the authority), an authority piece ("//host", or "host"
\* after "https://"), then the path.
SchemePieces == {"http:", "https:", "http://", "https://", "data:"}
HttpPieces == {"http:", "https:", "http://", "https://"}
AuthorityPieces == {"//cdn.example.org"}

\* urlparse(u).scheme is not empty.
HasScheme(u) == u # <<>> /\ u[1] \in SchemePieces

\* "bool(urlparse(img_url).netloc)"
HasNetloc(u) ==
    /\ u # <<>>
    /\ \/ u[1] \in AuthorityPieces
       \/ u[1] \in {"http://", "https://"} /\ Len(u) > 1
       \/ u[1] \in SchemePieces /\ Len(u) > 1 /\ u[2] \in AuthorityPieces

\* urljoin(base, u) for a base whose path is one segment below the root.
UrlJoin(base, u) ==
    IF base = <<>> \/ HasScheme(u) THEN u
    ELSE IF u = <<>> THEN base
    ELSE IF u[1] \in AuthorityPieces THEN <<base[1]>> \o u
    ELSE <<base[1], base[2], "/">> \o u

\* The URL download_image hands to requests.get.
RequestUrl(img_url, base_url) ==
    IF ~HasNetloc(img_url) THEN UrlJoin(base_url, img_url) ELSE img_url

\* requests.get raises MissingSchema / InvalidSchema unless the URL is http(s).
Fetchable(u) == u # <<>> /\ u[1] \in HttpPieces

\* What download_image can meet for one image: requests.get raises, the status
\* is not 200, PILImage.open raises on the bytes, or an image is opened.  PIL
\* opens lazily: the pixel data is read by paste / convert / save, which raise
\* when it is broken (intact = FALSE), as does save on a write failure.
DlError == [kind |-> "error", mode |-> "", w |-> 0, h |-> 0, intact |-> FALSE]
DlStatus == [kind |-> "status", mode |-> "", w |-> 0, h |-> 0, intact |-> FALSE]
DlUndecodable == [kind |-> "undecodable", mode |-> "", w |-> 0, h |-> 0, intact |-> FALSE]
DlImage(mode, w, h, intact) ==
    [kind |-> "image", mode |-> mode, w |-> w, h |-> h, intact |-> intact]

\* download_image returns a PIL image (otherwise None).
Downloaded(o) == o.kind = "image"

\* The mode normalisation before save: the saved file's mode, what the
\* transparent pixels were put on, and the mode the image was downloaded in.
SavedFile(o) ==
    IF o.mode = "RGBA"
    THEN [mode |-> "RGB", onto |-> "white", w |-> o.w, h |-> o.h, was |-> o.mode]
    ELSE IF o.mode # "RGB"
         THEN [mode |-> "RGB", onto |-> "none", w |-> o.w, h |-> o.h, was |-> o.mode]
         ELSE [mode |-> o.mode, onto |-> "none", w |-> o.w, h |-> o.h, was |-> o.mode]

\* ScaleImage narrowing the image without touching its height.
ScaleImageWidthOnly(w, h) ==
    [w |-> IF w > max_width THEN max_width ELSE w, hnum |-> h, hden |-> 1]

\* "if img.drawWidth > max_width: ..."; the drawn height is the exact quotient
\* hnum / hden (the code computes it in floating point).
ScaleImage(w, h) ==
    IF w > max_width
    THEN [w |-> max_width, hnum |-> h * max_width, hden |-> w]
    ELSE [w |-> w, hnum |-> h, hden |-> 1]

Headings == {"h1", "h2", "h3", "h4", "h5", "h6"}
\* The names of the walk "for element in soup.find_all([...])".
BlockTags == Headings \cup {"p", "img", "pre", "code", "ul", "ol", "li", "div"}
\* The names of "if element.find_all([...])" in the div branch.
DivBlockers == BlockTags \ {"div"}

Flowable(kind) ==
    [kind |-> kind, style |-> "", str |-> "", text |-> <<>>, el |-> 0,
     bullet |-> FALSE, id |-> 0, w |-> 0, hnum |-> 0, hden |-> 1, space |-> 0]

\* Paragraph(element.get_text().strip(), style): text is the text nodes of
\* element el that make up the string.
Para(doc, k, style) ==
    [Flowable("para") EXCEPT !.style = style, !.text = TextNodes(doc, k), !.el = k]
\* Spacer(1, x * inch), x in hundredths of an inch
Spacer(hundredths) == [Flowable("spacer") EXCEPT !.space = hundredths]
\* Paragraph(article_data['title'], title_style)
TitlePara(title) == [Flowable("para") EXCEPT !.style = "Title", !.str = title]
Picture(k, id, file) ==
    LET s == ScaleImage(file.w, file.h)
    IN  [Flowable("image") EXCEPT !.el = k, !.id = id, !.w = s.w,
                                  !.hnum = s.hnum, !.hden = s.hden]

\* DivHasBlocks looking for headings only.
DivHasBlocksHeadingsOnly(doc, k) ==
    \E j \in (k + 1)..SubtreeEnd(doc, k) : doc[j].tag \in Headings

\* The div branch's test: the div has a descendant the walk handles by itself.
DivHasBlocks(doc, k) ==
    \E j \in (k + 1)..SubtreeEnd(doc, k) : doc[j].tag \in DivBlockers

\* One iteration of the walk: what element k appends to elements.
ElementBlocks(doc, k, files) ==
    LET tag == doc[k].tag
        has_text == StrippedLen(doc, k) > 0
    IN  IF tag = "h1" THEN <<Para(doc, k, "Title"), Spacer(25)>>
        ELSE IF tag = "h2" THEN <<Para(doc, k, "Heading1"), Spacer(15)>>
        ELSE IF tag \in {"h3", "h4", "h5", "h6"}
             THEN <<Para(doc, k, "Heading2"), Spacer(10)>>
        ELSE IF tag = "p"
             THEN IF has_text THEN <<Para(doc, k, "Normal"), Spacer(10)>> ELSE <<>>
        ELSE IF tag \in {"pre", "code"}
             THEN IF has_text THEN <<Para(doc, k, "Code"), Spacer(10)>> ELSE <<>>
        ELSE IF tag \in {"ul", "ol"} THEN <<>>
        ELSE IF tag = "li"
             THEN IF has_text
                  THEN <<[Para(doc, k, "Normal") EXCEPT !.bullet = TRUE], Spacer(5)>>
                  ELSE <<>>
        ELSE IF tag = "div"
             THEN IF DivHasBlocks(doc, k) THEN <<>>
                  ELSE IF has_text THEN <<Para(doc, k, "Normal"), Spacer(10)>>
                  ELSE <<>>
        ELSE IF tag = "img"
             THEN IF doc[k].imgid # 0 /\ doc[k].imgid \in DOMAIN files
                  THEN <<Picture(k, doc[k].imgid, files[doc[k].imgid]), Spacer(10)>>
                  ELSE <<>>
        ELSE <<>>

RECURSIVE WalkFrom(_, _, _, _)
WalkFrom(doc, found, n, files) ==
    IF n > Len(found) THEN <<>>
    ELSE ElementBlocks(doc, found[n], files) \o WalkFrom(doc, found, n + 1, files)

\* BuildElements putting the title after the walk.
BuildElementsTitleLast(title, doc, files) ==
    WalkFrom(doc, FindAll(doc, BlockTags), 1, files)
        \o <<TitlePara(title), Spacer(25)>>

\* elements as handed to doc.build: the title, a spacer, then the walk.
BuildElements(title, doc, files) ==
    <<TitlePara(title), Spacer(25)>>
        \o WalkFrom(doc, FindAll(doc, BlockTags), 1, files)

----------------------------------------------------------------------------
(* The program: main, extract_article_content, create_pdf                  *)

\* extract_article_content returned None.
NoArticle ==
    [ok |-> FALSE, title |-> "", content |-> <<>>, images |-> <<>>, base_url |-> <<>>]

NoResponse == [err |-> FALSE, status |-> 0]

\* "if not url.startswith(('http://', 'https://')): url = 'https://' + url"
NormaliseUrl(u) ==
    IF u[1] \in {"http://", "https://"} THEN u ELSE <<"https://">> \o u

\* response.raise_for_status(): HTTPError for the 4xx and 5xx statuses.
RaisesForStatus(status) == 400 <= status /\ status < 600

\* doc.summary(): readability answers with one region of the page, the whole
\* body (0) or the subtree of one of its elements.
SummaryChoices(doc) ==
    {0} \cup {i \in 1..Len(doc) : doc[i].tag \notin {"#text", "img"}}
Summary(doc, i) == IF i = 0 THEN doc ELSE Subtree(doc, i)

ArticleAt(at) ==
    /\ pc = at
    /\ url = <<>>
    /\ raw = <<>>
    /\ page_title = ""
    /\ original_images = <<>>
    /\ soup = <<>>
    /\ source = ""
    /\ images = <<>>
    /\ uuid_ctr = 0
    /\ article_data = NoArticle
    /\ image_files = <<>>
    /\ dl_index = 0
    /\ elements = <<>>
    /\ output = <<>>
    /\ success = "none"
    /\ response = NoResponse
    /\ error = ""

Start(at) == NoBrowser /\ ArticleAt(at)

\* main: url = input(...); return on an empty url, else default the scheme.
MainInput(urls) ==
    /\ pc = "input"
    /\ \E u \in urls :
          IF u = <<>>
          THEN pc' = "done" /\ url' = u
          ELSE pc' = "fetch" /\ url' = NormaliseUrl(u)
    /\ UNCHANGED browser
    /\ UNCHANGED <<raw, page_title, original_images, soup, source, images, uuid_ctr,
                   article_data, image_files, dl_index, elements, output, success,
                   response, error>>

\* extract_article_content: requests.get, raise_for_status, the parse of the
\* page.  The answer is one of answers; its body parses to a tree over kinds
\* of at most n nodes, or to one of the pages of extras.
Fetch(answers, kinds, n, extras) ==
    /\ pc = "fetch"
    /\ \E r \in answers :
          /\ response' = r
          /\ IF r.err \/ RaisesForStatus(r.status)
             THEN /\ error' = "fetch"
                  /\ article_data' = NoArticle
                  /\ pc' = "main_check"
                  /\ UNCHANGED <<raw, page_title>>
             ELSE /\ IsTree(raw', kinds, n) \/ raw' \in extras
                  /\ page_title' = "T"
                  /\ pc' = "harvest"
                  /\ UNCHANGED <<error, article_data>>
    /\ UNCHANGED browser
    /\ UNCHANGED <<url, original_images, soup, source, images, uuid_ctr, image_files,
                   dl_index, elements, output, success>>

\* The harvest scan.
Harvest ==
    /\ pc = "harvest"
    /\ original_images' = HarvestImages(raw)
    /\ pc' = "readability"
    /\ UNCHANGED browser
    /\ UNCHANGED <<url, raw, page_title, soup, source, images, uuid_ctr, article_data,
                   image_files, dl_index, elements, output, success, response, error>>

\* Document(...).summary(), the parse of it and the first strip; an empty page
\* makes readability raise, which "except Exception" turns into None.
Readability ==
    /\ pc = "readability"
    /\ IF raw = <<>>
       THEN /\ error' = "extract"
            /\ article_data' = NoArticle
            /\ pc' = "main_check"
            /\ UNCHANGED <<soup, source>>
       ELSE /\ \E i \in SummaryChoices(raw) :
                  soup' = Decompose(Summary(raw, i), Unwanted)
            /\ source' = "READABILITY"
            /\ pc' = "quality"
            /\ UNCHANGED <<error, article_data>>
    /\ UNCHANGED browser
    /\ UNCHANGED <<url, raw, page_title, original_images, images, uuid_ctr,
                   image_files, dl_index, elements, output, success, response>>

\* The quality gate and the container fallback.
QualityGate ==
    /\ pc = "quality"
    /\ LET r == Fallback(raw, soup)
       IN  raw' = r.raw /\ soup' = r.soup /\ source' = r.source
    /\ pc' = "tag"
    /\ UNCHANGED browser
    /\ UNCHANGED <<url, page_title, original_images, images, uuid_ctr, article_data,
                   image_files, dl_index, elements, output, success, response, error>>

\* "First, process images found in the extracted content".
TagContentImages ==
    /\ pc = "tag"
    /\ LET r == TagImages(soup, uuid_ctr)
       IN  soup' = r.soup /\ images' = r.images /\ uuid_ctr' = r.ctr
    /\ pc' = "synth"
    /\ UNCHANGED browser
    /\ UNCHANGED <<url, raw, page_title, original_images, source, article_data,
                   image_files, dl_index, elements, output, success, response, error>>

\* "If we didn't find any images, try to add the original images".
SynthesizePlacements ==
    /\ pc = "synth"
    /\ LET r == Synthesize(soup, images, original_images, uuid_ctr)
       IN  soup' = r.soup /\ images' = r.images /\ uuid_ctr' = r.ctr
    /\ pc' = "return"
    /\ UNCHANGED browser
    /\ UNCHANGED <<url, raw, page_title, original_images, source, article_data,
                   image_files, dl_index, elements, output, success, response, error>>

\* The return of extract_article_content.
ReturnArticle ==
    /\ pc = "return"
    /\ article_data' = [ok |-> TRUE, title |-> page_title, content |-> soup,
                        images |-> images, base_url |-> url]
    /\ pc' = "main_check"
    /\ UNCHANGED browser
    /\ UNCHANGED <<url, raw, page_title, original_images, soup, source, images,
                   uuid_ctr, image_files, dl_index, elements, output, success,
                   response, error>>

\* main: "if not article_data: ... return", else on to create_pdf.
MainCheck ==
    /\ pc = "main_check"
    /\ pc' = IF article_data.ok THEN "create_pdf" ELSE "done"
    /\ UNCHANGED browser
    /\ UNCHANGED <<url, raw, page_title, original_images, soup, source, images,
                   uuid_ctr, article_data, image_files, dl_index, elements, output,
                   success, response, error>>

\* create_pdf: "if not article_data: return False", else start the downloads.
CreatePdf ==
    /\ pc = "create_pdf"
    /\ IF article_data.ok
       THEN pc' = "download" /\ success' = success
       ELSE pc' = "report" /\ success' = "false"
    /\ image_files' = <<>>
    /\ dl_index' = 0
    /\ UNCHANGED browser
    /\ UNCHANGED <<url, raw, page_title, original_images, soup, source, images,
                   uuid_ctr, article_data, elements, output, response, error>>

\* One iteration of "for img in article_data['images']": download_image (which
\* fails when requests cannot fetch the URL it resolved), the mode
\* normalisation and the save.  An exception of paste / convert / save is
\* caught by create_pdf's own except only.
DownloadImage(outcomes) ==
    /\ pc = "download"
    /\ dl_index < Len(article_data.images)
    /\ \E o \in outcomes :
          LET img == article_data.images[dl_index + 1]
          IN  /\ Fetchable(RequestUrl(img.src, article_data.base_url)) \/ o = DlError
              /\ IF Downloaded(o) /\ ~o.intact
                 THEN /\ error' = "pdf-image"
                      /\ success' = "false"
                      /\ pc' = "report"
                      /\ UNCHANGED <<image_files, dl_index>>
                 ELSE /\ image_files' = IF Downloaded(o)
                                        THEN (img.id :> SavedFile(o)) @@ image_files
                                        ELSE image_files
                      /\ dl_index' = dl_index + 1
                      /\ UNCHANGED <<error, success, pc>>
    /\ UNCHANGED browser
    /\ UNCHANGED <<url, raw, page_title, original_images, soup, source, images,
                   uuid_ctr, article_data, elements, output, response>>

\* The title, the walk over the content and doc.build, which writes the file
\* or raises (a layout error, a failed write).
BuildPdf ==
    /\ pc = "download"
    /\ dl_index = Len(article_data.images)
    /\ elements' = BuildElements(article_data.title, article_data.content, image_files)
    /\ \E built \in BOOLEAN :
          IF built
          THEN output' = elements' /\ success' = "true" /\ error' = error
          ELSE output' = output /\ success' = "false" /\ error' = "pdf-build"
    /\ pc' = "report"
    /\ UNCHANGED browser
    /\ UNCHANGED <<url, raw, page_title, original_images, soup, source, images,
                   uuid_ctr, article_data, image_files, dl_index, response>>

\* main: the success / failure message; create_pdf called by itself ends here too.
Report ==
    /\ pc = "report"
    /\ pc' = "done"
    /\ UNCHANGED browser
    /\ UNCHANGED <<url, raw, page_title, original_images, soup, source, images,
                   uuid_ctr, article_data, image_files, dl_index, elements, output,
                   success, response, error>>

----------------------------------------------------------------------------
(* Inputs                                                                  *)

AbsSrc == <<"https:", "//cdn.example.org", "/a.png">>
RelSrc == <<"img/b.png">>
DataSrc == <<"data:", "image/png;base64,AAAA">>

Urls == {<<>>, <<"example.org", "/a">>, <<"https://", "example.org", "/a">>}

\* The answers of requests.get: an exception (network error, timeout), or a
\* response with a status and a body.
NetworkError == [err |-> TRUE, status |-> 0]
Answers(statuses) == {NetworkError} \cup {[err |-> FALSE, status |-> st] : st \in statuses}

Statuses == {200, 300, 404, 503}

\* The largest page of the main specification, in nodes.
MaxNodes == 3

MainKinds ==
    {Node("article", 0), Node("p", 0), [Node("div", 0) EXCEPT !.cls = {"content"}],
     Text(6, 0), Text(ShortThreshold, 0), Img(AbsSrc, 0)}

\* <article><h1>T</h1><p>Short.</p></article>
ShortArticlePage ==
    <<Node("article", 0), Node("h1", 1), Text(1, 2), Node("p", 1), Text(6, 2)>>

\* <div><p>Teaser</p></div><article><p>(500 characters)</p></article>
LongArticlePage ==
    <<Node("div", 0), Node("p", 1), Text(6, 2),
      Node("article", 0), Node("p", 1), Text(ShortThreshold, 2)>>

ScenarioPages == {ShortArticlePage, LongArticlePage}

MainOutcomes ==
    {DlError, DlImage("RGB", 100, 80, TRUE), DlImage("RGB", 100, 80, FALSE)}

----------------------------------------------------------------------------
(* The whole program: main() from the prompt to its return                 *)

Init == Start("input")

Next ==
    \/ MainInput(Urls)
    \/ Fetch(Answers(Statuses), MainKinds, MaxNodes, ScenarioPages)
    \/ Harvest
    \/ Readability
    \/ QualityGate
    \/ TagContentImages
    \/ SynthesizePlacements
    \/ ReturnArticle
    \/ MainCheck
    \/ CreatePdf
    \/ DownloadImage(MainOutcomes)
    \/ BuildPdf
    \/ Report

Spec == Init /\ [][Next]_vars

----------------------------------------------------------------------------
(* extract_article_content on a fetched page: the content extractor        *)

\* The largest page of the extraction specification, in nodes.
MaxPageNodes == 3

ExtractKinds ==
    {Node("article", 0), [Node("div", 0) EXCEPT !.cls = {"content"}], Node("p", 0),
     Node("nav", 0), Text(6, 0), Text(ShortThreshold, 0), Blank(ShortThreshold, 0)}

InitExtract == Start("fetch")

NextExtract ==
    \/ Fetch(Answers({200}), ExtractKinds, MaxPageNodes, ScenarioPages)
    \/ Harvest
    \/ Readability
    \/ QualityGate
    \/ TagContentImages
    \/ SynthesizePlacements
    \/ ReturnArticle

SpecExtract == InitExtract /\ [][NextExtract]_vars

----------------------------------------------------------------------------
(* Properties of the content extractor                                     *)

\* len(node.get_text()) of node i (0: the whole tree), nothing stripped.
PlainLen(doc, i) ==
    LET idx == TextNodes(doc, i) IN SumLen(doc, idx, 1, Len(idx))

\* The page has a container for the fallback whose text has the threshold's length.
HasLongContainer(doc) ==
    \E k \in 1..Len(doc) : IsContainer(doc[k]) /\ PlainLen(doc, k) >= ShortThreshold

\* The content is rooted at the page's first fallback container.
RootedAtFirstContainer(content, doc) ==
    /\ SelectContainers(doc) # <<>>
    /\ content # <<>>
    /\ content[1] = [doc[SelectContainers(doc)[1]] EXCEPT !.depth = 0]

\* C2 (fallback trigger): whenever the quality gate is passed with a
\* readability text shorter than 500 characters on a page that has an article
\* or content-class container of at least 500 characters, the content comes
\* from the container fallback: the gate reports CONTAINER_FALLBACK and the
\* new content is rooted at the page's first matching container.
C2_FallbackTrigger ==
    [][(pc = "quality" /\ PlainLen(soup, 0) < ShortThreshold /\ HasLongContainer(raw))
          => (source' = "CONTAINER_FALLBACK" /\ RootedAtFirstContainer(soup', raw))]_vars

\* The fallback was taken from a short readability result and the content now
\* has the threshold's length.
C2_Witness ==
    /\ pc = "tag"
    /\ source = "CONTAINER_FALLBACK"
    /\ IsContainer(soup[1])
    /\ PlainLen(soup, 0) >= ShortThreshold

\* Every fallback container of the page is itself shorter than the threshold.
OnlyShortContainers(doc) ==
    /\ SelectContainers(doc) # <<>>
    /\ \A k \in 1..Len(doc) : IsContainer(doc[k]) => StrippedLen(doc, k) < ShortThreshold

\* The content has a paragraph whose text is the 6 characters of "Short.".
HasShortParagraph(doc) ==
    \E k \in 1..Len(doc) : doc[k].tag = "p" /\ StrippedLen(doc, k) = 6

\* C3 as stated (short-article scenario): when the readability text is below
\* the threshold and every matching container is below it too, the gate keeps
\* the readability result: source READABILITY and the content unchanged.
C3_AsStated ==
    [][(pc = "quality" /\ TooShort(soup) /\ OnlyShortContainers(raw))
          => (source' = "READABILITY" /\ soup' = soup)]_vars

\* C3 amended: when the readability text is below the threshold and a
\* container matches the fallback selectors, even one that is itself below the
\* threshold, the content is taken from the first matching container (source
\* CONTAINER_FALLBACK); the readability result is kept exactly when no
\* container matches; and on the page <article><h1>T</h1><p>Short.</p></article>
\* the new content still holds the paragraph "Short.".
C3_ShortArticle ==
    [][(pc = "quality" /\ TooShort(soup))
          => /\ SelectContainers(raw) # <<>>
                  => (source' = "CONTAINER_FALLBACK" /\ RootedAtFirstContainer(soup', raw))
             /\ SelectContainers(raw) = <<>>
                  => (source' = "READABILITY" /\ soup' = soup)
             /\ raw = ShortArticlePage => HasShortParagraph(soup')]_vars

\* The scenario page went through the gate: its only container is short, the
\* fallback took it, and the paragraph is there.
C3_Witness ==
    /\ pc = "tag"
    /\ raw = ShortArticlePage
    /\ source = "CONTAINER_FALLBACK"
    /\ HasShortParagraph(soup)

----------------------------------------------------------------------------
(* Properties of main                                                      *)

\* requests.get raised, or answered with a status outside 200..299.
FetchFailed ==
    \/ response.err
    \/ response.status # 0 /\ ~(200 <= response.status /\ response.status < 300)

\* C9 (fatal fetch failure): once the page fetch has raised or answered with
\* a non-2xx status, extract_article_content returns no article and main
\* stops: create_pdf is never entered and no file is written.
C9_FatalFetch ==
    FetchFailed => /\ ~article_data.ok
                   /\ pc \in {"main_check", "done"}
                   /\ success = "none"
                   /\ output = <<>>

----------------------------------------------------------------------------
(* The harvest scan on a fetched page: the image harvester                 *)

\* The most img elements of a page of the harvest specification.
MaxImgs == 2

ImgKinds ==
    {[Node("img", 0) EXCEPT !.hasSrc = has, !.src = src, !.width = w, !.height = h] :
        has \in {TRUE}, src \in {<<>>, DataSrc, AbsSrc, RelSrc},
        w \in {NoAttr, TextAttr, IntAttr(49), IntAttr(50)},
        h \in {NoAttr, EmptyAttr, IntAttr(49), IntAttr(50)}}
    \cup {Node("img", 0)}

InitHarvest == Start("fetch")

NextHarvest ==
    \/ Fetch(Answers({200}), ImgKinds, MaxImgs, {})
    \/ Harvest

SpecHarvest == InitHarvest /\ [][NextHarvest]_vars

\* The claim's filter on one img: it has a (non-empty) src, the src is no
\* data URI, and it is not the case that both dimensions parse as integers
\* with one of them below 50.
ClaimKeeps(n) ==
    /\ n.hasSrc /\ n.src # <<>>
    /\ n.src[1] # "data:"
    /\ ~(/\ n.width.k = "int" /\ n.height.k = "int"
         /\ (n.width.n < MinImageSide \/ n.height.n < MinImageSide))

\* C5 (image filter): after the harvest scan the harvested list is exactly the
\* sources of the page's img elements that have a src, are no data URI and do
\* not have both dimensions parsing as integers with one below 50, in
\* document order: an image with one dimension only, or with a non-integer
\* dimension, is kept.
C5_ImageFilter ==
    pc = "readability" =>
        LET kept == SelectSeq(FindAll(raw, {"img"}), LAMBDA k : ClaimKeeps(raw[k]))
        IN  original_images = [n \in 1..Len(kept) |-> raw[kept[n]].src]

\* A page of two images was scanned: the first, 49 x 50, is dropped; the
\* second, 49 wide with no height, is kept.
C5_Witness ==
    /\ pc = "readability"
    /\ Len(raw) = 2
    /\ raw[1].src = AbsSrc /\ raw[1].width = IntAttr(49) /\ raw[1].height = IntAttr(50)
    /\ raw[2].src = RelSrc /\ raw[2].width = IntAttr(49) /\ raw[2].height = NoAttr
    /\ original_images = <<RelSrc>>

----------------------------------------------------------------------------
(* Image placement resolution on an extracted content tree                 *)

\* The most paragraphs of a paragraphs-only content.
MaxParas == 10
\* The most harvested images.
MaxHarvest == 4
\* The most nodes of a content that mixes paragraphs and images.
MaxContent == 5

HarvestNames ==
    <<"/h1.png", "/h2.png", "/h3.png", "/h4.png", "/h5.png", "/h6.png", "/h7.png">>
HarvestedSrc(j) == <<"https:", "//cdn.example.org", HarvestNames[j]>>
HarvestLists(n) == {[j \in 1..m |-> HarvestedSrc(j)] : m \in 0..n}

\* Contents of paragraphs only, each after the first either a sibling of the
\* one before or nested in it (html.parser nests an unclosed <p>).
ParagraphDocs(m) ==
    UNION {{[k \in 1..n |-> Node("p", IF k = 1 THEN 0 ELSE d[k])] :
                d \in [1..n -> {0, 1}]} : n \in 0..m}

\* The stale value of a data-img-id attribute that the page itself carried.
StaleId == -1

PlaceKinds ==
    {Node("p", 0),
     [Img(AbsSrc, 0) EXCEPT !.alt = "photo"],
     [Img(RelSrc, 0) EXCEPT !.imgid = StaleId],
     Node("img", 0),
     [Node("img", 0) EXCEPT !.imgid = StaleId],
     [Node("img", 0) EXCEPT !.hasSrc = TRUE]}

MixedDocs(m) == UNION {[1..n -> PlaceKinds] : n \in 0..m}

InitPlace ==
    /\ pc = "tag"
    /\ \/ soup \in ParagraphDocs(MaxParas) /\ original_images \in HarvestLists(MaxHarvest)
       \/ soup \in MixedDocs(MaxContent) /\ original_images \in HarvestLists(1)
    /\ source = "READABILITY"
    /\ url = <<>>
    /\ raw = <<>>
    /\ page_title = "T"
    /\ images = <<>>
    /\ uuid_ctr = 0
    /\ article_data = NoArticle
    /\ image_files = <<>>
    /\ dl_index = 0
    /\ elements = <<>>
    /\ output = <<>>
    /\ success = "none"
    /\ response = [err |-> FALSE, status |-> 200]
    /\ error = ""
    /\ NoBrowser

NextPlace ==
    \/ TagContentImages
    \/ SynthesizePlacements
    \/ ReturnArticle

SpecPlace == InitPlace /\ [][NextPlace]_vars


\* The elements of a tree with the data-img-id attributes left out.
Untagged(doc) == [k \in 1..Len(doc) |-> [doc[k] EXCEPT !.imgid = 0]]

\* after is before with one img inserted immediately after (as the next
\* sibling of) the at(j)-th paragraph for j = 1, 2, ... while paragraphs and
\* harvested images last, the j-th carrying the j-th harvested source, and
\* refs lists exactly these images in order.
PlacedAfter(before, after, refs, harvested, at(_)) ==
    LET paras == FindAll(after, {"p"})
        used == {j \in 1..Len(harvested) : at(j) <= Len(paras)}
        imgs == FindAll(after, {"img"})
    IN  /\ SelectSeq(after, LAMBDA n : n.tag # "img") = before
        /\ Len(imgs) = Cardinality(used)
        /\ Len(refs) = Cardinality(used)
        /\ \A j \in used :
              LET p == paras[at(j)]
                  k == SubtreeEnd(after, p) + 1
              IN  /\ k <= Len(after)
                  /\ after[k].tag = "img"
                  /\ after[k].depth = after[p].depth
                  /\ after[k].src = harvested[j]
                  /\ refs[j].src = harvested[j]
                  /\ refs[j].id = after[k].imgid

AfterSecondOfThree(j) == PlacementStride * j - 1
AfterFirstOfNextThree(j) == PlacementStride * j + 1

\* C1 as stated (placement synthesis): with no image in the content and a
\* non-empty harvested list, the j-th harvested image is inserted immediately
\* after paragraph 3j-1 (2, 5, 8, ...).
C1_AsStated ==
    [][(pc = "synth" /\ FindAll(soup, {"img"}) = <<>> /\ original_images # <<>>)
          => PlacedAfter(soup, soup', images', original_images, AfterSecondOfThree)]_vars

\* C1 amended: with no image in the content and a non-empty harvested list,
\* the j-th harvested image (in harvest order) is inserted immediately after
\* paragraph 3j+1 (4, 7, 10, ...), until paragraphs or harvested images run
\* out; for 10 paragraphs and 4 harvested images the placements are after
\* paragraphs 4, 7 and 10, using 3 images and leaving the 4th unused.
C1_PlacementSynthesis ==
    [][(pc = "synth" /\ FindAll(soup, {"img"}) = <<>> /\ original_images # <<>>)
          => PlacedAfter(soup, soup', images', original_images, AfterFirstOfNextThree)]_vars

\* Ten paragraphs and four harvested images went through the placement:
\* three images were inserted, the last one after the tenth paragraph.
C1_Witness ==
    /\ pc = "return"
    /\ Len(FindAll(soup, {"p"})) = 10
    /\ Len(original_images) = 4
    /\ Len(images) = 3
    /\ Len(FindAll(soup, {"img"})) = 3
    /\ soup[SubtreeEnd(soup, FindAll(soup, {"p"})[10]) + 1].src = HarvestedSrc(3)

\* The ids of refs are pairwise distinct.
DistinctIds(refs) ==
    \A a, b \in 1..Len(refs) : refs[a].id = refs[b].id => a = b

\* The elements of doc that carry the id.
Carriers(doc, id) == {k \in 1..Len(doc) : doc[k].tag = "img" /\ doc[k].imgid = id}

\* C6 as stated (ImageRef invariant): in the returned content every img
\* element, with or without a src, carries an id; the ids are pairwise
\* distinct; every carried id is listed exactly once and every listed id is
\* carried by exactly one element.
C6_AsStated ==
    pc = "return" =>
        /\ \A k \in 1..Len(soup) : soup[k].tag = "img" =>
              /\ soup[k].imgid # 0
              /\ Cardinality({r \in 1..Len(images) : images[r].id = soup[k].imgid}) = 1
        /\ DistinctIds(images)
        /\ \A r \in 1..Len(images) : Cardinality(Carriers(soup, images[r].id)) = 1

\* C6 amended: in the returned content every img element that has a non-empty
\* src carries an id; these ids are pairwise distinct; each is listed exactly
\* once, with the element's src; every listed id is carried by exactly one
\* element; an img element without a non-empty src is left untagged and is
\* not listed.
C6_ImageRefs ==
    pc = "return" =>
        /\ \A k \in 1..Len(soup) : (soup[k].tag = "img" /\ soup[k].hasSrc /\ soup[k].src # <<>>) =>
              /\ soup[k].imgid > 0
              /\ Cardinality({r \in 1..Len(images) :
                                 /\ images[r].id = soup[k].imgid
                                 /\ images[r].src = soup[k].src}) = 1
        /\ DistinctIds(images)
        /\ \A r \in 1..Len(images) : Cardinality(Carriers(soup, images[r].id)) = 1
        /\ \A k \in 1..Len(soup) :
              (soup[k].tag = "img" /\ ~(soup[k].hasSrc /\ soup[k].src # <<>>)) =>
                  /\ soup[k].imgid \in {0, StaleId}
                  /\ \A r \in 1..Len(images) : images[r].id # soup[k].imgid

\* A content with two sourced images and one without a src was resolved.
C6_Witness ==
    /\ pc = "return"
    /\ Len(images) = 2
    /\ \E k \in 1..Len(soup) : soup[k].tag = "img" /\ ~soup[k].hasSrc /\ soup[k].imgid = 0
    /\ \E k \in 1..Len(soup) : soup[k].tag = "img" /\ soup[k].imgid = 2

\* C7 as stated: if the content holds at least one img element, the placement
\* resolution inserts nothing: the elements stay the same (ids apart).
C7_AsStated ==
    [][(pc \in {"tag", "synth"} /\ FindAll(soup, {"img"}) # <<>>)
          => Untagged(soup') = Untagged(soup)]_vars

\* C7 amended: if the content holds at least one img element with a non-empty
\* src, the placement resolution inserts nothing, for every harvested list.
C7_NoInsertion ==
    [][(/\ pc \in {"tag", "synth"}
        /\ \E k \in 1..Len(soup) : soup[k].tag = "img" /\ soup[k].hasSrc /\ soup[k].src # <<>>)
          => Untagged(soup') = Untagged(soup)]_vars

\* A content of one sourced image and four paragraphs was resolved against a
\* non-empty harvested list, and its one image is all it has.
C7_Witness ==
    /\ pc = "return"
    /\ original_images # <<>>
    /\ Len(FindAll(soup, {"p"})) = 4
    /\ Len(soup) = 5
    /\ Len(images) = 1
    /\ images[1].alt = "photo"

----------------------------------------------------------------------------
(* create_pdf on an extracted article: block model and renderer            *)

\* The most nodes of a content of nested blocks.
MaxBlockNodes == 3
\* The most items (paragraphs, images) of a content with images.
MaxItems == 3

BlockKinds ==
    {Node("p", 0), Node("li", 0), Node("pre", 0), Node("code", 0), Node("div", 0),
     Node("h2", 0), Text(6, 0), Blank(2, 0)}

\* <p>text</p> and <img src=...>, the items of a content with images.
ParaItem == <<Node("p", 0), Text(6, 1)>>
ImgItem == <<Img(AbsSrc, 0)>>
H1Item == <<Node("h1", 0), Text(6, 1)>>
\* <div>Intro.<p>Hello.</p></div>
DivItem == <<Node("div", 0), Text(6, 1), Node("p", 1), Text(6, 2)>>

RECURSIVE Concat(_)
Concat(items) == IF items = <<>> THEN <<>> ELSE Head(items) \o Concat(Tail(items))

ImageDocs(m) ==
    {Concat(items) : items \in UNION {[1..n -> {ParaItem, ImgItem, H1Item, DivItem}] : n \in 0..m}}

\* What extract_article_content returns for a content tree.
ArticleOf(doc) ==
    LET r == TagImages(doc, 0)
    IN  [ok |-> TRUE, title |-> "T", content |-> r.soup, images |-> r.images,
         base_url |-> <<"https://", "example.org", "/a">>]

PdfOutcomes ==
    {DlError, DlStatus, DlUndecodable, DlImage("RGB", 100, 80, FALSE),
     DlImage("RGBA", 100, 80, TRUE), DlImage("LA", 100, 80, TRUE),
     DlImage("L", 100, 80, TRUE)}
    \cup {DlImage("RGB", w, 300, TRUE) : w \in {100, 432, 433, 450, 468, 500, 864}}

InitPdf ==
    /\ pc = "create_pdf"
    /\ \/ \E doc \in ImageDocs(MaxItems) : article_data = ArticleOf(doc)
       \/ \E m \in 0..MaxBlockNodes : \E d \in DepthPatterns(m) :
             \E ks \in [1..m -> BlockKinds] :
                 WellNested(TreeOf(ks, d)) /\ article_data = ArticleOf(TreeOf(ks, d))
       \/ article_data = NoArticle
    /\ url = <<>>
    /\ raw = <<>>
    /\ page_title = ""
    /\ original_images = <<>>
    /\ soup = <<>>
    /\ source = ""
    /\ images = <<>>
    /\ uuid_ctr = 0
    /\ image_files = <<>>
    /\ dl_index = 0
    /\ elements = <<>>
    /\ output = <<>>
    /\ success = "none"
    /\ response = NoResponse
    /\ error = ""
    /\ NoBrowser

NextPdf ==
    \/ CreatePdf
    \/ DownloadImage(PdfOutcomes)
    \/ BuildPdf
    \/ Report

SpecPdf == InitPdf /\ [][NextPdf]_vars

----------------------------------------------------------------------------
(* Properties of create_pdf                                                *)

\* create_pdf returned True: the document was built from elements.
Rendered == pc = "report" /\ success = "true"

\* The text blocks and the image blocks of a list of flowables, in order.
TextBlocks(els) == SelectSeq(els, LAMBDA e : e.kind = "para")
ImageBlocks(els) == SelectSeq(els, LAMBDA e : e.kind = "image")

\* The text nodes with characters other than whitespace that a text block shows.
SolidText(doc, e) ==
    {e.text[n] : n \in {m \in 1..Len(e.text) :
                            ~doc[e.text[m]].blank /\ doc[e.text[m]].len > 0}}

\* C4: no duplication.  In a rendered document no text of the content tree is
\* shown by two text blocks, nested block-bearing elements included.
C4_NoDuplication ==
    Rendered =>
        \A a, b \in 1..Len(output) :
            (a # b /\ output[a].kind = "para" /\ output[b].kind = "para")
                => SolidText(article_data.content, output[a])
                       \cap SolidText(article_data.content, output[b]) = {}

\* The ids of the img elements of doc whose file is in files, in document order.
PresentImages(doc, files) ==
    LET imgs == SelectSeq(FindAll(doc, {"img"}),
                          LAMBDA k : doc[k].imgid # 0 /\ doc[k].imgid \in DOMAIN files)
    IN  [n \in 1..Len(imgs) |-> doc[imgs[n]].imgid]

\* C8: per-image failure isolation.  Whatever happens to the images (download
\* error, status other than 200, bytes that cannot be decoded, converted or
\* saved), create_pdf returns True unless doc.build itself fails, every text
\* block is rendered in order, and so is every image that was saved.
C8_FailureIsolation ==
    (pc = "report" /\ article_data.ok /\ error # "pdf-build") =>
        /\ success = "true"
        /\ TextBlocks(output)
               = TextBlocks(BuildElements(article_data.title, article_data.content, <<>>))
        /\ [n \in 1..Len(ImageBlocks(output)) |-> ImageBlocks(output)[n].id]
               = PresentImages(article_data.content, image_files)

\* Image block e shows its file scaled down to width limit when wider, at its
\* natural size otherwise; the height hnum / hden keeps the aspect ratio.
ScaledTo(e, file, limit) ==
    IF file.w > limit
    THEN e.w = limit /\ e.hnum * file.w = file.h * limit * e.hden
    ELSE e.w = file.w /\ e.hnum = file.h * e.hden

\* C10 as stated: every rendered image wider than the usable width of the page
\* (the page width minus both margins) is rendered at that width with its
\* aspect ratio kept, and every other image at its natural size.
C10_AsStated ==
    Rendered =>
        \A n \in 1..Len(output) :
            output[n].kind = "image"
                => ScaledTo(output[n], image_files[output[n].id], UsableWidth)

\* C10: scale-to-width.  Every rendered image wider than 6 inches is rendered
\* 6 inches wide with height naturalHeight * 6in / naturalWidth, and every
\* other image at its natural size.
C10_ScaleToWidth ==
    Rendered =>
        \A n \in 1..Len(output) :
            output[n].kind = "image"
                => ScaledTo(output[n], image_files[output[n].id], MaxWidthInches * inch)

\* A rendered document with an image scaled down to 6 inches, whose natural
\* width fits the usable width, next to an image shown at its natural size.
C10_Witness ==
    /\ Rendered
    /\ \E a, b \in 1..Len(output) :
          /\ output[a].kind = "image" /\ output[b].kind = "image"
          /\ image_files[output[a].id].w > MaxWidthInches * inch
          /\ image_files[output[a].id].w <= UsableWidth
          /\ output[a].w = MaxWidthInches * inch
          /\ image_files[output[b].id].w <= MaxWidthInches * inch
          /\ output[b].w = image_files[output[b].id].w

\* No element of the content makes the walk emit a block: no heading, no
\* image with a saved file, and no other block-bearing element with text.
YieldsNoBlocks(doc, files) ==
    \A k \in 1..Len(doc) :
        doc[k].tag \in BlockTags =>
            IF doc[k].tag = "img" THEN doc[k].imgid \notin DOMAIN files
            ELSE doc[k].tag \notin Headings /\ StrippedLen(doc, k) = 0

\* C13: title first.  Every rendered document starts with the article title
\* in the title style and then a spacer of a quarter inch, an h1 in the
\* content or not; and when no step of create_pdf raised and the content
\* yields no blocks, the document is rendered and is exactly title + spacer.
C13_TitleFirst ==
    /\ Rendered =>
          /\ Len(output) >= 2
          /\ output[1] = [Flowable("para") EXCEPT !.style = "Title",
                                                  !.str = article_data.title]
          /\ output[2] = [Flowable("spacer") EXCEPT !.space = 25]
    /\ (pc = "report" /\ article_data.ok /\ error = ""
            /\ YieldsNoBlocks(article_data.content, image_files))
          => (success = "true" /\ Len(output) = 2)

\* A rendered document whose content has an h1: the article title comes first
\* and the h1 follows as a second paragraph in the title style.
C13_Witness ==
    /\ Rendered
    /\ output[1].style = "Title" /\ output[1].el = 0
    /\ \E n \in 3..Len(output) :
          /\ output[n].kind = "para" /\ output[n].style = "Title"
          /\ output[n].el # 0
          /\ article_data.content[output[n].el].tag = "h1"

\* The blocks of the rendered document that element k of the content emitted.
EmittedFor(k) ==
    {n \in 1..Len(output) : output[n].kind \in {"para", "image"} /\ output[n].el = k}

\* Element k has a descendant among h1-h6, p, img, pre, code, ul, ol, li.
HasNamedDescendant(doc, k) ==
    \E j \in (k + 1)..Len(doc) :
        /\ \A i \in (k + 1)..j : doc[i].depth > doc[k].depth
        /\ doc[j].tag \in {"h1", "h2", "h3", "h4", "h5", "h6", "p", "img",
                           "pre", "code", "ul", "ol", "li"}

\* C14: generic-container rule.  In a rendered document a div has emitted one
\* paragraph (normal style, its whole text) if its trimmed text is not empty
\* and it has no descendant among h1-h6, p, img, pre, code, ul, ol, li, and
\* nothing otherwise; the descendants of a skipped div are emitted by their
\* own rules (a heading always, a p / li / pre / code with text), and the
\* blocks follow the document order of their elements.
C14_DivRule ==
    Rendered =>
        LET doc == article_data.content
        IN  /\ \A k \in 1..Len(doc) :
                  doc[k].tag = "div" =>
                      IF StrippedLen(doc, k) > 0 /\ ~HasNamedDescendant(doc, k)
                      THEN /\ Cardinality(EmittedFor(k)) = 1
                           /\ \A n \in EmittedFor(k) :
                                 /\ output[n].style = "Normal" /\ ~output[n].bullet
                                 /\ output[n].text = TextNodes(doc, k)
                      ELSE EmittedFor(k) = {}
            /\ \A j \in 1..Len(doc) :
                  (\/ doc[j].tag \in Headings
                   \/ doc[j].tag \in {"p", "li", "pre", "code"} /\ StrippedLen(doc, j) > 0)
                      => Cardinality(EmittedFor(j)) = 1
            /\ \A a, b \in 1..Len(output) :
                  (a < b /\ output[a].el # 0 /\ output[b].el # 0)
                      => output[a].el < output[b].el

\* A rendered document with a div that has text of its own and a paragraph
\* inside: the div emitted nothing and the paragraph was emitted.
C14_Witness ==
    /\ Rendered
    /\ \E k, j \in 1..Len(article_data.content) :
          LET doc == article_data.content
          IN  /\ k < j /\ j <= SubtreeEnd(doc, k)
              /\ doc[k].tag = "div" /\ doc[k + 1].tag = "#text"
              /\ doc[j].tag = "p"
              /\ EmittedFor(k) = {} /\ EmittedFor(j) # {}

\* The PIL modes that carry an alpha channel.
AlphaModes == {"RGBA", "LA", "PA", "RGBa", "La"}

\* C15: colour-mode normalisation.  Every saved image is in RGB mode, and
\* every image that was downloaded in a mode with an alpha channel, RGBA or
\* another, was composited onto a white background.
C15_ModeNormalisation ==
    \A id \in DOMAIN image_files :
        /\ image_files[id].mode = "RGB"
        /\ image_files[id].was \in AlphaModes => image_files[id].onto = "white"

----------------------------------------------------------------------------
(* extract_article_content on pages with advertising inside the container  *)

MaxCleanNodes == 3

\* The classes the fallback's strip list names with a leading dot.
AdClasses == {"ad", "advertisement", "social-share", "related-posts"}

CleanKinds ==
    {Node("article", 0), [Node("div", 0) EXCEPT !.cls = {"content"}],
     Node("nav", 0), [Node("div", 0) EXCEPT !.cls = {"ad"}], Text(6, 0)}

InitClean == Start("fetch")

NextClean ==
    \/ Fetch(Answers({200}), CleanKinds, MaxCleanNodes, {})
    \/ Harvest
    \/ Readability
    \/ QualityGate
    \/ TagContentImages
    \/ SynthesizePlacements
    \/ ReturnArticle

SpecClean == InitClean /\ [][NextClean]_vars

\* C11: on the container-fallback path the new content is rooted at the
\* page's first matching container and holds no script, style, nav, footer,
\* header or aside element and no element of class ad, advertisement,
\* social-share or related-posts.
C11_CleanFallback ==
    [][(pc = "quality" /\ source' = "CONTAINER_FALLBACK")
          => /\ RootedAtFirstContainer(soup', raw)
             /\ \A k \in 1..Len(soup') :
                   /\ soup'[k].tag \notin Unwanted
                   /\ soup'[k].cls \cap AdClasses = {}]_vars

----------------------------------------------------------------------------
(* main on pages whose images have absolute, relative and scheme-relative   *)
(* sources                                                                  *)

MaxUrlImgs == 2

\* src="//cdn.example.org/a.png"
SchemeRelSrc == <<"//cdn.example.org", "/a.png">>

SrcKinds == {AbsSrc, RelSrc, SchemeRelSrc}

\* <article> with four paragraphs of 200 characters </article>
FourParagraphs ==
    <<Node("article", 0), Node("p", 1), Text(200, 2), Node("p", 1), Text(200, 2),
      Node("p", 1), Text(200, 2), Node("p", 1), Text(200, 2)>>

\* The article followed by at most m images, outside of it.
UrlPages(m) ==
    {FourParagraphs \o [k \in DOMAIN srcs |-> Img(srcs[k], 0)] :
        srcs \in UNION {[1..n -> SrcKinds] : n \in 1..m}}

InitUrls == Start("input")

NextUrls ==
    \/ MainInput({<<"example.org", "/a">>})
    \/ Fetch(Answers({200}), {}, 0, UrlPages(MaxUrlImgs))
    \/ Harvest
    \/ Readability
    \/ QualityGate
    \/ TagContentImages
    \/ SynthesizePlacements
    \/ ReturnArticle
    \/ MainCheck
    \/ CreatePdf
    \/ DownloadImage(MainOutcomes)
    \/ BuildPdf
    \/ Report

SpecUrls == InitUrls /\ [][NextUrls]_vars

\* C12: every URL that download_image requests for an image of the article
\* (one found in the content or one synthesized from the harvest) is an
\* absolute URL with a scheme, relative and scheme-relative sources included.
C12_AbsoluteRequests ==
    pc = "download" =>
        \A n \in 1..Len(article_data.images) :
            HasScheme(RequestUrl(article_data.images[n].src, article_data.base_url))

----------------------------------------------------------------------------
(* save_full_page.py: save_page_as_pdf                                     *)

\* The largest number of iterations of the scroll loop.
MaxScrolls == 2

\* An exception reaches "except Exception", which returns None; like every
\* return inside the try, the value waits for the finally block.
LeaveWith(value) ==
    /\ pending' = value
    /\ sp_pc' = "finally"

\* From "driver = None" to webdriver.Chrome(...): the driver is created, or
\* the installation of the driver or the start of Chrome raises.
CreateDriver ==
    /\ sp_pc = "start"
    /\ \E created \in BOOLEAN :
          IF created
          THEN driver' = "live" /\ sp_pc' = "navigate" /\ pending' = pending
          ELSE driver' = driver /\ LeaveWith("None")
    /\ UNCHANGED <<headless, is_medium, quit_calls, scrolls_left, pdf_file, returned>>
    /\ UNCHANGED article

\* set_page_load_timeout, driver.get and the wait for the body.
Navigate ==
    /\ sp_pc = "navigate"
    /\ \E loaded \in BOOLEAN :
          IF loaded
          THEN /\ sp_pc' = IF is_medium THEN "medium" ELSE "scroll_height"
               /\ pending' = pending
          ELSE LeaveWith("None")
    /\ UNCHANGED <<headless, is_medium, driver, quit_calls, scrolls_left, pdf_file,
                   returned>>
    /\ UNCHANGED article

\* The Medium block: the popup, the verification (early return when it fails
\* in headless mode, input() otherwise) and the wait for the article.
MediumHandling ==
    /\ sp_pc = "medium"
    /\ \E verified \in BOOLEAN, raised \in BOOLEAN :
          IF ~verified /\ headless
          THEN LeaveWith("None")
          ELSE IF raised
               THEN LeaveWith("None")
               ELSE sp_pc' = "scroll_height" /\ pending' = pending
    /\ UNCHANGED <<headless, is_medium, driver, quit_calls, scrolls_left, pdf_file,
                   returned>>
    /\ UNCHANGED article

\* scroll_height = driver.execute_script(...): the length of the scroll loop.
ScrollHeight ==
    /\ sp_pc = "scroll_height"
    /\ \/ \E n \in 0..MaxScrolls :
             scrolls_left' = n /\ sp_pc' = "scroll" /\ pending' = pending
       \/ scrolls_left' = scrolls_left /\ LeaveWith("None")
    /\ UNCHANGED <<headless, is_medium, driver, quit_calls, pdf_file, returned>>
    /\ UNCHANGED article

\* One iteration of "for i in range(0, scroll_height, 500)".
ScrollStep ==
    /\ sp_pc = "scroll"
    /\ scrolls_left > 0
    /\ \E scrolled \in BOOLEAN :
          IF scrolled
          THEN scrolls_left' = scrolls_left - 1 /\ UNCHANGED <<sp_pc, pending>>
          ELSE scrolls_left' = scrolls_left /\ LeaveWith("None")
    /\ UNCHANGED <<headless, is_medium, driver, quit_calls, pdf_file, returned>>
    /\ UNCHANGED article

\* "Scroll back to top"
ScrollTop ==
    /\ sp_pc = "scroll"
    /\ scrolls_left = 0
    /\ \E scrolled \in BOOLEAN :
          IF scrolled
          THEN sp_pc' = "print" /\ pending' = pending
          ELSE LeaveWith("None")
    /\ UNCHANGED <<headless, is_medium, driver, quit_calls, scrolls_left, pdf_file,
                   returned>>
    /\ UNCHANGED article

\* pdf = driver.execute_cdp_cmd("Page.printToPDF", print_options)
PrintToPdf ==
    /\ sp_pc = "print"
    /\ \E printed \in BOOLEAN :
          IF printed
          THEN sp_pc' = "write" /\ pending' = pending
          ELSE LeaveWith("None")
    /\ UNCHANGED <<headless, is_medium, driver, quit_calls, scrolls_left, pdf_file,
                   returned>>
    /\ UNCHANGED article

\* What "with open(output_path, 'wb') as file: file.write(b64decode(...))" can
\* meet: open raises; open creates or truncates the file and the decoding
\* raises; the write raises part-way; or the file is written.
WriteOutcomes == {"open_fails", "decode_fails", "write_fails", "written"}

\* The state of the file after the with statement.
FileAfter(outcome, before) ==
    IF outcome = "open_fails" THEN before
    ELSE IF outcome = "decode_fails" THEN "empty"
    ELSE IF outcome = "write_fails" THEN "partial"
    ELSE "pdf"

\* "Save PDF to file" and "return output_path".
WriteFile ==
    /\ sp_pc = "write"
    /\ \E outcome \in WriteOutcomes :
          /\ pdf_file' = FileAfter(outcome, pdf_file)
          /\ LeaveWith(IF outcome = "written" THEN "output_path" ELSE "None")
    /\ UNCHANGED <<headless, is_medium, driver, quit_calls, scrolls_left, returned>>
    /\ UNCHANGED article

\* finally: "if driver: driver.quit()", then the held return value goes out,
\* unless quit itself raises.
Finally ==
    /\ sp_pc = "finally"
    /\ IF driver # "None"
       THEN /\ quit_calls' = quit_calls + 1
            /\ driver' = "closed"
            /\ \E quit_raised \in BOOLEAN :
                  returned' = IF quit_raised THEN "raised" ELSE pending
       ELSE /\ UNCHANGED <<quit_calls, driver>>
            /\ returned' = pending
    /\ sp_pc' = "done"
    /\ UNCHANGED <<headless, is_medium, scrolls_left, pdf_file, pending>>
    /\ UNCHANGED article

InitBrowser ==
    /\ ArticleAt("done")
    /\ sp_pc = "start"
    /\ headless \in BOOLEAN
    /\ is_medium \in BOOLEAN
    /\ driver = "None"
    /\ quit_calls = 0
    /\ scrolls_left = 0
    /\ pdf_file \in {"absent", "old"}
    /\ pending = ""
    /\ returned = ""

NextBrowser ==
    \/ CreateDriver
    \/ Navigate
    \/ MediumHandling
    \/ ScrollHeight
    \/ ScrollStep
    \/ ScrollTop
    \/ PrintToPdf
    \/ WriteFile
    \/ Finally

SpecBrowser == InitBrowser /\ [][NextBrowser]_vars

\* C16: browser session lifecycle.  When save_page_as_pdf has ended, a driver
\* that was created has been quit exactly once (and none was quit otherwise),
\* on every exit path; and the file at output_path has been written to (it is
\* not as it was before the call) only if the call returned the output path.
C16_SessionLifecycle ==
    /\ quit_calls <= 1
    /\ sp_pc = "done" =>
          /\ quit_calls = IF driver = "None" THEN 0 ELSE 1
          /\ pdf_file \notin {"absent", "old"} => returned = "output_path"

====
